---- MODULE Spec2Model ----
(***************************************************************************)
(* Model of the sonification core of spotiflood (src/app/app.py):          *)
(*   freqMap        - the scale quantizer (np.linspace + np.digitize)      *)
(*   make_track     - the run encoder                                      *)
(*   generate_midi  - the Dash callback that quantizes three voices,       *)
(*                    encodes them and assembles timed notes               *)
(*                                                                         *)
(* Numbers.  Flow samples are powers of two, so that the natural logarithm *)
(* taken by freqMap is an exact integer multiple of ln 2 (Ln below); the   *)
(* bin edges of np.linspace are kept as exact rationals over a common      *)
(* denominator.  Note times are Python floats: they are modelled as IEEE   *)
(* binary64 values with round-to-nearest-even (fl_add, fl_mul).            *)
(***************************************************************************)
EXTENDS Integers, Sequences, FiniteSets, TLC

VARIABLES
    \* --- quantizer harness: one call of freqMap -------------------------
    data,           \* the series passed to freqMap
    freq,           \* the scale passed to freqMap
    log,            \* freqMap's log flag
    inv,            \* freqMap's inv flag
    offset,         \* freqMap's offset
    f,              \* the result of the call
    qpc,            \* "ready" before the call, "done" after it
    \* --- encoder / assembler harness ------------------------------------
    note_list,      \* the quantized sequence passed to make_track
    beat_length,    \* the unit duration, in steps of 0.05 s
    track,          \* the result of make_track
    notes,          \* the notes appended to the instrument
    start_time,     \* the running time after the last note
    epc,            \* "ready", "encoded", "assembled"
    \* --- the Dash application -------------------------------------------
    df,             \* the loaded data frame: gauge -> day -> sample
    call,           \* the State values of the last generate_midi call
    midi_data_store,    \* Output('midi-data-store', 'data')
    status_message,     \* Output('status-message', 'children')
    download_disabled,  \* Output('download-btn', 'disabled')
    figure,             \* Output('visualization-graph', 'figure')
    ppc,            \* "idle" before the Generate click, "done" after it
    download_data,  \* Output('download-midi', 'data')
    \* --- the three voices of one generate_midi call ----------------------
    tracks,         \* [make_track(voice1_fm), ..., make_track(voice3_fm)]
    instrument_notes,   \* instrument1.notes, instrument2.notes, instrument3.notes
    order,          \* the voices assembled so far, in the order taken
    \* --- the gauge map ---------------------------------------------------
    response,       \* what requests.get does for the site lookup
    gauge_locations,    \* the module-level result of get_usgs_site_info
    gauge_map,      \* Output('gauge-map', 'figure'): the marker lists
    gpc,            \* "start", "fetched", "failed", "drawn"
    \* --- the browser-side player ------------------------------------------
    plays,          \* playbacks started so far
    parsing,        \* playbacks whose Midi.fromUrl promise is pending
    loading,        \* <<playback, track>> whose Soundfont promise is pending
    timers,         \* the timers armed in the browser
    scheduledNotes, \* window.scheduledNotes
    activeTimeout,  \* window.activeTimeout
    stopped,        \* playbacks started before the last run of Stop
    played,         \* of the notes that have sounded: after Stop? superseded?
    playback_status \* Output('playback-status', 'children')

qvars == <<data, freq, log, inv, offset, f, qpc>>
evars == <<note_list, beat_length, track, notes, start_time, epc>>
pvars == <<df, call, midi_data_store, status_message, download_disabled,
           figure, ppc>>
vvars == <<tracks, instrument_notes, order>>
gvars == <<response, gauge_locations, gauge_map, gpc>>
jvars == <<plays, parsing, loading, timers, scheduledNotes, activeTimeout,
           stopped, played, playback_status>>
xvars == <<download_data, vvars, gvars, jvars>>
vars  == <<qvars, evars, pvars, xvars>>

----------------------------------------------------------------------------
(* Bounds *)

MaxExp == 4         \* samples are 2^0 .. 2^MaxExp
MaxLen == 3         \* longest series handed to freqMap in the harness
MaxScale == 4       \* longest prefix of a built-in scale used as a scale
MaxOffset == 1      \* offsets are -12*MaxOffset .. 12*MaxOffset semitones

----------------------------------------------------------------------------
(* Values *)

NaN == -1           \* np.nan: a missing sample (real samples are positive)

None == << >>       \* Python None / an empty figure {}

Range(s) == {s[i] : i \in 1..Len(s)}

Reverse(s) == [i \in 1..Len(s) |-> s[Len(s) + 1 - i]]

SeqsUpTo(S, n) == UNION {[1..k -> S] : k \in 1..n}

Values == {2^e : e \in 0..MaxExp}

freqDict ==
    [name \in {"Arab Double Harmonic", "Chromatic", "C Major Pentatonic",
               "C Major Diatonic", "A Minor Pentatonic"} |->
      CASE name = "Arab Double Harmonic" ->
             \* frequencies in Hz, written here in hundredths
             <<13081, 13859, 16481, 17461, 19600, 20765, 24694, 26163,
               27718, 32963, 34923, 39200, 41530, 49388, 52325>>
        [] name = "Chromatic" -> [i \in 1..48 |-> 35 + i]
        [] name = "C Major Pentatonic" ->
             <<48, 50, 52, 55, 57, 60, 62, 64, 67, 69, 72, 74, 76, 79, 81, 84>>
        [] name = "C Major Diatonic" ->
             <<36, 38, 40, 41, 43, 45, 47, 48, 50, 52, 53, 55, 57, 59, 60,
               62, 64, 65, 67, 69, 71, 72, 74, 76, 77, 79, 81, 84>>
        [] name = "A Minor Pentatonic" ->
             <<45, 48, 50, 52, 55, 57, 60, 62, 64, 67, 69, 72, 74, 76, 79,
               81, 84>>]

----------------------------------------------------------------------------
(* The scale quantizer: freqMap *)

\* np.log on a sample, in units of ln 2 (samples are powers of two)
Ln(x) == IF x = NaN THEN NaN ELSE CHOOSE e \in 0..(MaxExp + 1) : 2^e = x

\* pandas Series.min() / Series.max(): missing samples are skipped, and the
\* result is NaN when no sample is defined
Defined(s) == {s[i] : i \in 1..Len(s)} \ {NaN}

SeriesMin(s) ==
    IF Defined(s) = {} THEN NaN
    ELSE CHOOSE m \in Defined(s) : \A x \in Defined(s) : m <= x

SeriesMax(s) ==
    IF Defined(s) = {} THEN NaN
    ELSE CHOOSE m \in Defined(s) : \A x \in Defined(s) : m >= x

\* np.linspace(start, stop, num): num equally spaced edges from start to
\* stop, both included.  Edge j is edges[j] / den.
linspace(start, stop, num) ==
    LET den == IF num > 1 THEN num - 1 ELSE 1
    IN  [den   |-> den,
         edges |-> [j \in 1..num |->
                      IF start = NaN \/ stop = NaN THEN NaN
                      ELSE start * den + (j - 1) * (stop - start)]]

\* numpy's check of the bins: 1 for non-decreasing bins, -1 when the first
\* two differing bins do not increase (all-NaN bins compare unequal)
monotonicity(bins) ==
    IF Len(bins.edges) >= 2 /\ bins.edges[1] = NaN THEN -1 ELSE 1

\* numpy's sort order: NaN is the largest value
LessEq(e, x) == IF x = NaN THEN TRUE ELSE IF e = NaN THEN FALSE ELSE e <= x

\* variant: side='left', the number of edges < x
searchsorted_left(bins, x) ==
    Cardinality({j \in 1..Len(bins.edges) :
                   /\ x # NaN /\ bins.edges[j] # NaN
                   /\ bins.edges[j] < x * bins.den})

\* np.searchsorted(bins, x, side='right'): the number of edges <= x
searchsorted(bins, x) ==
    Cardinality({j \in 1..Len(bins.edges) :
                   LessEq(bins.edges[j],
                          IF x = NaN THEN NaN ELSE x * bins.den)})

\* variant: increasing bins treated as decreasing ones
digitize_decreasing(x, bins) == Len(bins.edges) - searchsorted(bins, x)

\* np.digitize(x, bins) with right=False
digitize(x, bins) ==
    IF monotonicity(bins) = -1
    THEN Len(bins.edges) - searchsorted(bins, x)
    ELSE searchsorted(bins, x)

\* variant: one bin edge per scale entry, np.linspace(..., len(freq))
freqMap_len_edges(d, fr, lg, iv, off) ==
    LET T(x) == IF lg THEN Ln(x) ELSE x
        bins == linspace(T(SeriesMin(d)), T(SeriesMax(d)), Len(fr))
        digitized == [i \in 1..Len(d) |-> digitize(T(d[i]), bins)]
    IN  IF \E i \in 1..Len(d) : digitized[i] >= Len(fr)
        THEN [exc |-> "IndexError", f |-> << >>]
        ELSE [exc |-> "", f |-> [i \in 1..Len(d) |-> fr[digitized[i] + 1]]]

\* freqMap(data, freq, log, inv, offset); the result is the list f, or the
\* IndexError raised by freq[i]
freqMap(d, fr, lg, iv, off) ==
    LET T(x) == IF lg THEN Ln(x) ELSE x
        bins == linspace(T(SeriesMin(d)), T(SeriesMax(d)), Len(fr) - 1)
        digitized == [i \in 1..Len(d) |-> digitize(T(d[i]), bins)]
    IN  IF \E i \in 1..Len(d) : digitized[i] >= Len(fr)
        THEN [exc |-> "IndexError", f |-> << >>]
        ELSE [exc |-> "", f |-> [i \in 1..Len(d) |-> fr[digitized[i] + 1]]]

\* the 0-based bin index freqMap uses for sample i
BinIndex(d, fr, lg, i) ==
    LET T(x) == IF lg THEN Ln(x) ELSE x
    IN  digitize(T(d[i]),
                 linspace(T(SeriesMin(d)), T(SeriesMax(d)), Len(fr) - 1))

----------------------------------------------------------------------------
(* Quantizer harness: freqMap applied to bounded inputs *)

Scales ==
    {<<60, 64, 67>>, <<0, 1, 2, 3, 4>>}
    \cup {SubSeq(freqDict["C Major Pentatonic"], 1, n) : n \in 2..MaxScale}

Offsets == {12 * k : k \in (0 - MaxOffset)..MaxOffset}

SeriesSet == SeqsUpTo(Values, MaxLen) \cup {<<1, 2, 4, 8, 16>>}

EIdle ==
    /\ note_list = << >> /\ beat_length = 0 /\ track = << >>
    /\ notes = << >> /\ start_time = <<0, 0, 0>> /\ epc = "off"

PIdle ==
    /\ df = << >> /\ call = << >> /\ midi_data_store = None
    /\ status_message = [color |-> "", days |-> 0, seconds |-> 0]
    /\ download_disabled = TRUE /\ figure = None
    /\ ppc = "off"

GIdle ==
    /\ response = << >> /\ gauge_locations = [k \in {} |-> << >>]
    /\ gauge_map = << >> /\ gpc = "off"

\* a timer is named by its playback and track; track 0 is the auto-stop
NoTimer == [play |-> 0, track |-> 0]

JIdle ==
    /\ plays = 0 /\ parsing = {} /\ loading = {} /\ timers = {}
    /\ scheduledNotes = {} /\ activeTimeout = NoTimer
    /\ stopped = {} /\ played = {} /\ playback_status = ""

XIdle ==
    /\ download_data = << >>
    /\ tracks = << >> /\ instrument_notes = << >> /\ order = << >>
    /\ GIdle /\ JIdle

QIdle ==
    /\ data = << >> /\ freq = << >> /\ log = TRUE /\ inv = FALSE
    /\ offset = 0 /\ f = [exc |-> "", f |-> << >>] /\ qpc = "off"

InitQuant ==
    /\ data \in SeriesSet
    /\ freq \in Scales
    /\ log \in BOOLEAN
    /\ inv \in BOOLEAN
    /\ offset \in Offsets
    /\ f = [exc |-> "", f |-> << >>]
    /\ qpc = "ready"
    /\ EIdle /\ PIdle /\ XIdle

Quantize ==
    /\ qpc = "ready"
    /\ f' = freqMap(data, freq, log, inv, offset)
    /\ qpc' = "done"
    /\ UNCHANGED <<data, freq, log, inv, offset, evars, pvars, xvars>>

NextQuant == Quantize

SpecQuant == InitQuant /\ [][NextQuant]_vars

----------------------------------------------------------------------------
(* Python floats: IEEE binary64, round to nearest, ties to even.           *)
(* A non-negative float is held exactly as an integer count of 2^-60, in   *)
(* three limbs of 24 bits, least significant first.                        *)

Limb == 2^24

Zero == <<0, 0, 0>>

One == <<0, 0, 2^12>>

Carry(a) ==
    LET s2 == a[2] + (a[1] \div Limb)
        s3 == a[3] + (s2 \div Limb)
    IN  <<a[1] % Limb, s2 % Limb, s3>>

BigAdd(a, b) == Carry(<<a[1] + b[1], a[2] + b[2], a[3] + b[3]>>)

BigMul(a, c) == Carry(<<a[1] * c, a[2] * c, a[3] * c>>)

BigDiv(a, d) ==
    LET t2 == (a[3] % d) * Limb + a[2]
        t1 == (t2 % d) * Limb + a[1]
    IN  [q |-> <<t1 \div d, t2 \div d, a[3] \div d>>, rem |-> t1 % d]

BigLeq(a, b) ==
    \/ a[3] < b[3]
    \/ a[3] = b[3] /\ a[2] < b[2]
    \/ a[3] = b[3] /\ a[2] = b[2] /\ a[1] <= b[1]

Bits(n) == CHOOSE k \in 0..31 : n < 2^k /\ (k = 0 \/ 2^(k - 1) <= n)

BitLen(a) ==
    IF a[3] > 0 THEN 48 + Bits(a[3])
    ELSE IF a[2] > 0 THEN 24 + Bits(a[2]) ELSE Bits(a[1])

\* round an exact value to the 53-bit significand of a binary64; sticky
\* says that the exact value lies strictly above a
RoundDouble(a, sticky) ==
    LET q == BitLen(a) - 53
    IN  IF q <= 0 THEN a
        ELSE LET low  == a[1] % (2^q)
                 half == 2^(q - 1)
                 odd  == (a[1] \div (2^q)) % 2 = 1
                 down == <<a[1] - low, a[2], a[3]>>
                 up   == \/ low > half
                         \/ low = half /\ (sticky \/ odd)
             IN  IF up THEN BigAdd(down, <<2^q, 0, 0>>) ELSE down

fl_add(a, b) == RoundDouble(BigAdd(a, b), FALSE)

\* a float times a Python int
fl_mul(a, n) == RoundDouble(BigMul(a, n), FALSE)

\* the float the number input delivers for k steps of 0.05 s: the binary64
\* nearest to k/20
Float(k) ==
    LET d == BigDiv(BigMul(One, k), 20)
    IN  RoundDouble(d.q, d.rem # 0)

\* int(x) of a non-negative float
FloatToInt(a) == a[3] \div (2^12)

----------------------------------------------------------------------------
(* The run encoder: make_track *)

\* variant: a repeated note does not increment the count of its run
RECURSIVE make_track_loop_no_count(_, _)
make_track_loop_no_count(tr, rest) ==
    IF rest = << >> THEN tr
    ELSE LET note == Head(rest)
         IN  IF note = tr[Len(tr)][1]
             THEN make_track_loop_no_count(tr, Tail(rest))
             ELSE make_track_loop_no_count(Append(tr, <<note, 1>>), Tail(rest))

\* variant: every note opens a new run
RECURSIVE make_track_loop_no_merge(_, _)
make_track_loop_no_merge(tr, rest) ==
    IF rest = << >> THEN tr
    ELSE make_track_loop_no_merge(Append(tr, <<Head(rest), 1>>), Tail(rest))

RECURSIVE make_track_loop(_, _)
make_track_loop(tr, rest) ==
    IF rest = << >> THEN tr
    ELSE LET note == Head(rest)
             last == tr[Len(tr)]
         IN  IF note = last[1]
             THEN make_track_loop([tr EXCEPT ![Len(tr)] = <<last[1], last[2] + 1>>],
                                  Tail(rest))
             ELSE make_track_loop(Append(tr, <<note, 1>>), Tail(rest))

\* make_track(note_list), for a non-empty list (note_list[0] raises
\* IndexError on an empty one)
make_track(nl) == make_track_loop(<< <<nl[1], 1>> >>, Tail(nl))

----------------------------------------------------------------------------
(* The note assembler: the body of the loop over one track in generate_midi *)

\* variant: start_time is not advanced to end_time
RECURSIVE AssembleLoop_no_advance(_, _, _, _)
AssembleLoop_no_advance(tr, bl, st, acc) ==
    IF tr = << >> THEN [notes |-> acc, start_time |-> st]
    ELSE LET note_info == Head(tr)
             end_time == fl_add(st, fl_mul(bl, note_info[2]))
             note == [velocity |-> 100, pitch |-> note_info[1],
                      start |-> st, end |-> end_time]
         IN  AssembleLoop_no_advance(Tail(tr), bl, st, Append(acc, note))

RECURSIVE AssembleLoop(_, _, _, _)
AssembleLoop(tr, bl, st, acc) ==
    IF tr = << >> THEN [notes |-> acc, start_time |-> st]
    ELSE LET note_info == Head(tr)
             end_time == fl_add(st, fl_mul(bl, note_info[2]))
             note == [velocity |-> 100, pitch |-> note_info[1],
                      start |-> st, end |-> end_time]
         IN  AssembleLoop(Tail(tr), bl, end_time, Append(acc, note))

\* one iteration of "for track, instrument in zip(...)": start_time = 0,
\* then one note per run
Assemble(tr, bl) == AssembleLoop(tr, bl, Zero, << >>)

----------------------------------------------------------------------------
(* Encoder / assembler harness *)

MaxTrackLen == 5        \* longest quantized sequence handed to make_track

MaxBeatSteps == 40      \* beat-length-input: max=2.0 in steps of 0.05

Pitches == {60, 64}

InitEnc ==
    /\ note_list \in SeqsUpTo(Pitches, MaxTrackLen) \cup {<< >>}
    /\ beat_length \in 1..MaxBeatSteps
    /\ track = << >> /\ notes = << >> /\ start_time = Zero
    /\ epc = "ready"
    /\ QIdle /\ PIdle /\ XIdle

\* make_track(note_list)
MakeTrack ==
    /\ epc = "ready"
    /\ IF note_list = << >>
       THEN epc' = "IndexError" /\ track' = track
       ELSE epc' = "encoded" /\ track' = make_track(note_list)
    /\ UNCHANGED <<note_list, beat_length, notes, start_time, qvars, pvars, xvars>>

\* the loop that turns the track into notes
AssembleNotes ==
    /\ epc = "encoded"
    /\ LET r == Assemble(track, Float(beat_length))
       IN  notes' = r.notes /\ start_time' = r.start_time
    /\ epc' = "assembled"
    /\ UNCHANGED <<note_list, beat_length, track, qvars, pvars, xvars>>

NextEnc == MakeTrack \/ AssembleNotes

SpecEnc == InitEnc /\ [][NextEnc]_vars

----------------------------------------------------------------------------
(* The Dash application: the generate_midi callback *)

Cleared == "None"       \* a dropdown without a selection

default_trios ==
    [name \in {"Raccoon River"} |->
        [root |-> "05484900", upper |-> <<"05482300", "05483450">>]]

valid_gauges == {"05484900", "05482300", "05483450"}

\* the ingredients of dbc.Alert(...)
Alert(color, days, seconds) ==
    [color |-> color, days |-> days, seconds |-> seconds]

\* variant: the inversion flag is ignored
InvertIfNeeded_ignored(fr, voice_inv) == fr

\* "if voiceN_inv: freqN = freqN[::-1]"
InvertIfNeeded(fr, voice_inv) == IF voice_inv THEN Reverse(fr) ELSE fr

\* df[gauge][start:end]: the rows from start to end, both included
Window(d, gauge, start, end) == SubSeq(d[gauge], start, end)

\* midi.write(midi_io): the MIDI messages take data bytes only, so a program
\* or a pitch outside 0..127 raises
write_raises(midi) ==
    \E v \in 1..Len(midi) :
        \/ midi[v].program \notin 0..127
        \/ \E n \in 1..Len(midi[v].notes) : midi[v].notes[n].pitch \notin 0..127

\* variant: the failure return leaves the Download button enabled
Failure_enabled(color) ==
    [data |-> None, children |-> Alert(color, 0, 0),
     disabled |-> FALSE, figure |-> None]

\* "return None, dbc.Alert(...), True, {}": the return of a call that does
\* not produce MIDI data
Failure(color) ==
    [data |-> None, children |-> Alert(color, 0, 0),
     disabled |-> TRUE, figure |-> None]

\* generate_midi: the four outputs for data frame d and State values c
generate_midi(d, c) ==
    IF Cleared \in {c.gauge1, c.gauge2, c.gauge3}
    THEN Failure("warning")
    ELSE
    LET freq1 == freqDict[c.freq1_name]
        freq2 == InvertIfNeeded(freqDict[c.freq2_name], c.voice2_inv)
        freq3 == InvertIfNeeded(freqDict[c.freq3_name], c.voice3_inv)
        voice1_fm == freqMap(Window(d, c.gauge1, c.start_date, c.end_date),
                             freq1, TRUE, FALSE, 0)
        voice2_fm == freqMap(Window(d, c.gauge2, c.start_date, c.end_date),
                             freq2, TRUE, FALSE, 0)
        voice3_fm == freqMap(Window(d, c.gauge3, c.start_date, c.end_date),
                             freq3, TRUE, FALSE, 0)
        fms == <<voice1_fm, voice2_fm, voice3_fm>>
        insts == <<c.inst1, c.inst2, c.inst3>>
        \* an exception inside the try block: freq[i] out of range, or
        \* note_list[0] of an empty list in make_track, or midi.write
        quantize_raised == \E v \in 1..3 : fms[v].exc # "" \/ fms[v].f = << >>
        voice(v) == Assemble(make_track(fms[v].f), Float(c.beat_length))
        midi == [v \in 1..3 |->
                   [program |-> insts[v], notes |-> voice(v).notes]]
    IN  IF quantize_raised \/ write_raises(midi)
        THEN Failure("danger")
        ELSE [data |-> midi,
              children |-> Alert("success", Len(voice1_fm.f),
                                 FloatToInt(voice(3).start_time)),
              disabled |-> FALSE,
              figure |-> [v \in 1..3 |-> fms[v].f]]

----------------------------------------------------------------------------
(* The application with one Generate click *)

MaxDays == 3            \* days in the loaded record

DataValues == {1, 2, 4, NaN}

Rows == [1..MaxDays -> DataValues]

\* the loaded records: the root gauge carries any record, the upper gauges
\* the same record backwards and forwards
DataSets ==
    {[g \in valid_gauges |->
        IF g = default_trios["Raccoon River"].upper[1] THEN Reverse(r) ELSE r]
     : r \in Rows}

FreqChoices == {"A Minor Pentatonic", "C Major Pentatonic"}

\* the gauges of the default trio, with at most one dropdown cleared
GaugeChoices ==
    LET t == default_trios["Raccoon River"]
        full == <<t.root, t.upper[1], t.upper[2]>>
    IN  {full} \cup {[full EXCEPT ![i] = Cleared] : i \in 1..3}

Calls ==
    {[gauge1 |-> g[1], gauge2 |-> g[2], gauge3 |-> g[3],
      start_date |-> sd, end_date |-> ed,
      freq1_name |-> n1, freq2_name |-> n2, freq3_name |-> n3,
      inst1 |-> 0, inst2 |-> 11, inst3 |-> 12,
      voice2_inv |-> i2, voice3_inv |-> i3,
      beat_length |-> 4] :
        g \in GaugeChoices, sd \in 1..MaxDays, ed \in 1..MaxDays,
        n1 \in {"A Minor Pentatonic"}, n2 \in FreqChoices, n3 \in FreqChoices,
        i2 \in BOOLEAN, i3 \in BOOLEAN}

Init ==
    /\ df \in DataSets
    /\ call = << >>
    /\ midi_data_store = None
    /\ status_message = Alert("", 0, 0)
    /\ download_disabled = TRUE
    /\ figure = None
    /\ ppc = "idle"
    /\ QIdle /\ EIdle /\ XIdle

\* a click on Generate MIDI
Generate ==
    /\ ppc = "idle"
    /\ \E c \in Calls :
         LET out == generate_midi(df, c)
         IN  /\ call' = c
             /\ midi_data_store' = out.data
             /\ status_message' = out.children
             /\ download_disabled' = out.disabled
             /\ figure' = out.figure
    /\ ppc' = "done"
    /\ UNCHANGED <<df, qvars, evars, xvars>>

Next == Generate

Spec == Init /\ [][Next]_vars

----------------------------------------------------------------------------
(* The application over any sequence of Generate and Download clicks *)

\* download_midi: None without stored data, else the file to send
download_midi(midi_b64, gauge1, start_date, end_date) ==
    IF midi_b64 = None THEN None
    ELSE <<midi_b64, <<"spotiflood", gauge1, start_date, end_date>> >>

\* two loaded records: one complete, one with a missing day
AppDataSets ==
    {ds \in DataSets :
        \/ \A d \in 1..MaxDays :
              ds[default_trios["Raccoon River"].root][d] = 2^((d - 1) % 3)
        \/ \A d \in 1..MaxDays :
              ds[default_trios["Raccoon River"].root][d]
                = IF d = 1 THEN NaN ELSE 2}

\* the State values of a click: the first or the last day as the dates, a
\* beat length of 0 or 0.2 s, program 0 or 128 for the first voice
AppCalls ==
    {[gauge1 |-> g[1], gauge2 |-> g[2], gauge3 |-> g[3],
      start_date |-> sd, end_date |-> ed,
      freq1_name |-> "A Minor Pentatonic",
      freq2_name |-> "C Major Pentatonic",
      freq3_name |-> "C Major Pentatonic",
      inst1 |-> i1, inst2 |-> 11, inst3 |-> 12,
      voice2_inv |-> TRUE, voice3_inv |-> FALSE,
      beat_length |-> bl] :
        g \in GaugeChoices, sd \in {1, MaxDays}, ed \in {1, MaxDays},
        i1 \in {0, 128}, bl \in {0, 4}}

InitApp ==
    /\ df \in AppDataSets
    /\ call = << >>
    /\ midi_data_store = None
    /\ status_message = Alert("", 0, 0)
    /\ download_disabled = TRUE
    /\ figure = None
    /\ ppc = "ready"
    /\ download_data = None
    /\ tracks = << >> /\ instrument_notes = << >> /\ order = << >>
    /\ GIdle /\ JIdle
    /\ QIdle /\ EIdle

\* a click on Generate MIDI, at any time
GenerateClick ==
    /\ ppc \in {"ready", "clicked"}
    /\ \E c \in AppCalls :
         LET out == generate_midi(df, c)
         IN  /\ call' = c
             /\ midi_data_store' = out.data
             /\ status_message' = out.children
             /\ download_disabled' = out.disabled
             /\ figure' = out.figure
    /\ ppc' = "clicked"
    /\ UNCHANGED <<df, download_data, vvars, gvars, jvars, qvars, evars>>

\* a click on Download MIDI; a disabled button takes no click
DownloadClick ==
    /\ ppc = "clicked"
    /\ ~download_disabled
    /\ download_data' = download_midi(midi_data_store, call.gauge1,
                                      call.start_date, call.end_date)
    /\ UNCHANGED <<df, call, midi_data_store, status_message,
                   download_disabled, figure, ppc, vvars, gvars, jvars,
                   qvars, evars>>

NextApp == GenerateClick \/ DownloadClick

SpecApp == InitApp /\ [][NextApp]_vars

----------------------------------------------------------------------------
(* The loop over the three voices of generate_midi, one voice per step.    *)
(* The code takes the voices in the order 1, 2, 3; the steps here take     *)
(* them in any order, with the one start_time variable the loop has.       *)

MaxVoiceLen == 3        \* longest quantized sequence of a voice

\* variant: start_time is not reset at the start of a track
AssembleVoice_carry(tr, bl, st) == AssembleLoop(tr, bl, st, << >>)

\* the body of "for track, instrument in zip(...)" entered with start_time
\* holding st: "start_time = 0", then one note per run
AssembleVoice(tr, bl, st) == AssembleLoop(tr, bl, Zero, << >>)

\* the three quantized voices cover the same days
InitVoices ==
    /\ \E n \in 1..MaxVoiceLen :
         \E fms \in [1..3 -> [1..n -> Pitches]] :
            tracks = [v \in 1..3 |-> make_track(fms[v])]
    /\ beat_length \in {4, 7}
    /\ instrument_notes = [v \in 1..3 |-> << >>]
    /\ order = << >>
    /\ start_time = Zero
    /\ note_list = << >> /\ track = << >> /\ notes = << >> /\ epc = "off"
    /\ download_data = << >>
    /\ GIdle /\ JIdle
    /\ QIdle /\ PIdle

\* one iteration of the loop over the tracks
AssembleNextVoice ==
    \E v \in 1..3 :
        /\ v \notin Range(order)
        /\ LET r == AssembleVoice(tracks[v], Float(beat_length), start_time)
           IN  /\ instrument_notes' =
                    [instrument_notes EXCEPT ![v] = instrument_notes[v] \o r.notes]
               /\ start_time' = r.start_time
        /\ order' = Append(order, v)
        /\ UNCHANGED <<tracks, beat_length, note_list, track, notes, epc,
                       download_data, gvars, jvars, qvars, pvars>>

NextVoices == AssembleNextVoice

SpecVoices == InitVoices /\ [][NextVoices]_vars

----------------------------------------------------------------------------
(* The gauge map: get_usgs_site_info and create_gauge_map.                 *)
(* A line of the response is the sequence of its tab-separated fields; a   *)
(* comment line has "#" as its first field.                                *)

MaxRows == 2            \* data rows in a response

\* list(df.columns)
gauge_columns == <<"05484900", "05482300", "05483450">>

EmptyDict == [k \in {} |-> << >>]

\* float(s) for the field texts used here, in tenths; any other text raises
FloatTable == [t \in {"41.5", "-93.6", "0"} |->
                 CASE t = "41.5" -> 415 [] t = "-93.6" -> 0 - 936 [] t = "0" -> 0]

\* headers.index(name), 1-based; 0 stands for the ValueError
IndexOf(headers, name) ==
    IF \E i \in 1..Len(headers) : headers[i] = name
    THEN CHOOSE i \in 1..Len(headers) :
            headers[i] = name /\ \A j \in 1..(i - 1) : headers[j] # name
    ELSE 0

Max4(a, b, c, e) ==
    CHOOSE m \in {a, b, c, e} : \A x \in {a, b, c, e} : x <= m

\* the loop over data_lines[2:]
RECURSIVE parse_lines(_, _, _, _, _, _)
parse_lines(lines, site_no_idx, lat_idx, lon_idx, name_idx, site_info) ==
    IF lines = << >> THEN [exc |-> "", site_info |-> site_info]
    ELSE
    LET parts == Head(lines)
        rest  == Tail(lines)
        blank == \A i \in 1..Len(parts) : parts[i] = ""
    IN  IF blank \/ Len(parts) < Max4(site_no_idx, lat_idx, lon_idx, name_idx)
        THEN parse_lines(rest, site_no_idx, lat_idx, lon_idx, name_idx, site_info)
        ELSE IF \E t \in {parts[lat_idx], parts[lon_idx]} :
                    t # "" /\ t \notin DOMAIN FloatTable
        THEN [exc |-> "ValueError", site_info |-> site_info]
        ELSE
        LET site_no == parts[site_no_idx]
            \* 0 also stands for None: both are false in "if lat and lon"
            lat == IF parts[lat_idx] = "" THEN 0 ELSE FloatTable[parts[lat_idx]]
            lon == IF parts[lon_idx] = "" THEN 0 ELSE FloatTable[parts[lon_idx]]
            added == [k \in DOMAIN site_info \cup {site_no} |->
                        IF k = site_no THEN <<lat, lon, parts[name_idx]>>
                        ELSE site_info[k]]
        IN  parse_lines(rest, site_no_idx, lat_idx, lon_idx, name_idx,
                        IF lat # 0 /\ lon # 0 THEN added ELSE site_info)

\* the body of the try block: the mapping it returns, or the exception it
\* raises
site_info_try(resp) ==
    IF resp.raises THEN [exc |-> "RequestException", site_info |-> EmptyDict]
    ELSE IF resp.status_code # 200 THEN [exc |-> "", site_info |-> EmptyDict]
    ELSE
    LET data_lines == SelectSeq(resp.lines,
                                LAMBDA l : ~(Len(l) > 0 /\ l[1] = "#"))
    IN  IF Len(data_lines) < 2 THEN [exc |-> "", site_info |-> EmptyDict]
        ELSE
        LET headers == data_lines[1]
            site_no_idx == IndexOf(headers, "site_no")
            lat_idx == IndexOf(headers, "dec_lat_va")
            lon_idx == IndexOf(headers, "dec_long_va")
            name_idx == IndexOf(headers, "station_nm")
        IN  IF 0 \in {site_no_idx, lat_idx, lon_idx, name_idx}
            THEN [exc |-> "ValueError", site_info |-> EmptyDict]
            ELSE parse_lines(SubSeq(data_lines, 3, Len(data_lines)),
                             site_no_idx, lat_idx, lon_idx, name_idx, EmptyDict)

\* variant: no except clause, the exception leaves the function
get_usgs_site_info_no_except(resp) == site_info_try(resp)

\* get_usgs_site_info: "except Exception: return {}" around the try block
get_usgs_site_info(resp) ==
    IF site_info_try(resp).exc # ""
    THEN [exc |-> "", site_info |-> EmptyDict]
    ELSE site_info_try(resp)

\* create_gauge_map(selected_gauges): the marker lists of the figure
RECURSIVE create_gauge_map_loop(_, _, _, _)
create_gauge_map_loop(gauges, locations, selected_gauges, fig) ==
    IF gauges = << >> THEN fig
    ELSE
    LET gauge == Head(gauges)
    IN  IF gauge \in DOMAIN locations
        THEN create_gauge_map_loop(Tail(gauges), locations, selected_gauges,
                [lat   |-> Append(fig.lat, locations[gauge][1]),
                 lon   |-> Append(fig.lon, locations[gauge][2]),
                 text  |-> Append(fig.text, <<gauge, locations[gauge][3]>>),
                 color |-> Append(fig.color,
                                  IF gauge \in selected_gauges
                                  THEN "#00D856" ELSE "#1E90FF"),
                 size  |-> Append(fig.size,
                                  IF gauge \in selected_gauges THEN 15 ELSE 10)])
        ELSE create_gauge_map_loop(Tail(gauges), locations, selected_gauges, fig)

create_gauge_map(locations, selected_gauges) ==
    create_gauge_map_loop(gauge_columns, locations, selected_gauges,
        [lat |-> << >>, lon |-> << >>, text |-> << >>, color |-> << >>,
         size |-> << >>])

HeaderLines ==
    {<<"agency_cd", "site_no", "station_nm", "dec_lat_va", "dec_long_va">>,
     <<"agency_cd", "site_no", "station_nm", "dec_lat_va">>}

DataLines ==
    {<<"USGS", site, "RACCOON R", lat, lon>> :
        site \in {gauge_columns[1], gauge_columns[2], "05400000"},
        lat \in {"41.5", "", "0", "n/a"}, lon \in {"-93.6", ""}}
    \cup {<<"USGS", gauge_columns[3]>>, <<"">>}

Responses ==
    {[raises |-> TRUE, status_code |-> 0, lines |-> << >>],
     [raises |-> FALSE, status_code |-> 503, lines |-> << >>],
     [raises |-> FALSE, status_code |-> 200, lines |-> << <<"#">> >>]}
    \cup {[raises |-> FALSE, status_code |-> 200,
           lines |-> << <<"#">>, h >>] : h \in HeaderLines}
    \cup {[raises |-> FALSE, status_code |-> 200,
           lines |-> << <<"#">>, h, <<"5s", "15s", "50s", "16s", "16s">> >> \o rows] :
            h \in HeaderLines,
            rows \in SeqsUpTo(DataLines, MaxRows) \cup {<< >>}}

InitGeo ==
    /\ response \in Responses
    /\ gauge_locations = EmptyDict
    /\ gauge_map = << >>
    /\ gpc = "start"
    /\ download_data = << >>
    /\ tracks = << >> /\ instrument_notes = << >> /\ order = << >>
    /\ JIdle
    /\ QIdle /\ EIdle /\ PIdle

\* "gauge_locations = get_usgs_site_info(valid_gauges)" at start-up
FetchLocations ==
    /\ gpc = "start"
    /\ LET r == get_usgs_site_info(response)
       IN  IF r.exc # ""
           THEN gpc' = "failed" /\ gauge_locations' = gauge_locations
           ELSE gpc' = "fetched" /\ gauge_locations' = r.site_info
    /\ UNCHANGED <<response, gauge_map, download_data, vvars, jvars, qvars,
                   evars, pvars>>

\* update_map(gauge1, gauge2, gauge3): the selected gauges, then the map
update_map ==
    /\ gpc \in {"fetched", "drawn"}
    /\ \E g \in GaugeChoices :
         gauge_map' = create_gauge_map(gauge_locations, Range(g) \ {Cleared})
    /\ gpc' = "drawn"
    /\ UNCHANGED <<response, gauge_locations, download_data, vvars, jvars,
                   qvars, evars, pvars>>

NextGeo == FetchLocations \/ update_map

SpecGeo == InitGeo /\ [][NextGeo]_vars

----------------------------------------------------------------------------
(* The browser-side player: the clientside callbacks of play-btn and       *)
(* stop-btn.  The page runs one task at a time, so each callback and each  *)
(* promise continuation is one step.  Every track carries one note.        *)

MaxPlays == 2           \* playbacks started

MaxTracks == 1          \* tracks of the file that are played

\* midi.tracks
PlayerTracks == 1..MaxTracks

ovars == <<download_data, vvars, gvars, qvars, evars, pvars>>

NoteTimer(p, t) == [play |-> p, track |-> t]
AutoStop(p) == [play |-> p, track |-> 0]

InitPlay ==
    /\ plays = 0 /\ parsing = {} /\ loading = {} /\ timers = {}
    /\ scheduledNotes = {} /\ activeTimeout = NoTimer
    /\ stopped = {} /\ played = {} /\ playback_status = ""
    /\ download_data = << >>
    /\ tracks = << >> /\ instrument_notes = << >> /\ order = << >>
    /\ GIdle
    /\ QIdle /\ EIdle /\ PIdle

\* play-btn: function(n_clicks, midi_b64)
PlayClick ==
    /\ UNCHANGED ovars
    /\  \E midi_b64 \in BOOLEAN :
            IF ~midi_b64
            THEN /\ playback_status' = "Ready to play"
                 /\ UNCHANGED <<plays, parsing, loading, timers, scheduledNotes,
                                activeTimeout, stopped, played>>
            ELSE /\ plays < MaxPlays
                 /\ timers' = timers \ (scheduledNotes \cup {activeTimeout})
                 /\ scheduledNotes' = {}
                 /\ plays' = plays + 1
                 /\ parsing' = parsing \cup {plays + 1}
                 /\ playback_status' = "Playing..."
                 /\ UNCHANGED <<loading, activeTimeout, stopped, played>>

\* stop-btn: function(n_clicks)
StopClick ==
    /\ UNCHANGED ovars
    /\  /\ timers' = timers \ (scheduledNotes \cup {activeTimeout})
        /\ scheduledNotes' = {}
        /\ activeTimeout' = NoTimer
        /\ stopped' = 1..plays
        /\ playback_status' = "Stopped"
        /\ UNCHANGED <<plays, parsing, loading, played>>

\* Midi.fromUrl(...).then(midi => ...): one Soundfont request per track
ParseDone ==
    /\ UNCHANGED ovars
    /\  \E p \in parsing :
            /\ parsing' = parsing \ {p}
            /\ scheduledNotes' = {}
            /\ loading' = loading \cup {<<p, t>> : t \in PlayerTracks}
            /\ UNCHANGED <<plays, timers, activeTimeout, stopped, played,
                           playback_status>>

\* Soundfont.instrument(...).then(instrument => ...): the notes of the track
\* are scheduled; after the last track of the playback, Promise.all arms the
\* auto-stop
InstrumentLoaded ==
    /\ UNCHANGED ovars
    /\  \E pt \in loading :
            LET p == pt[1]
                t == pt[2]
                last == \A q \in loading : q[1] = p => q = pt
            IN  /\ loading' = loading \ {pt}
                /\ scheduledNotes' = scheduledNotes \cup {NoteTimer(p, t)}
                /\ timers' = timers \cup {NoteTimer(p, t)}
                                \cup (IF last THEN {AutoStop(p)} ELSE {})
                /\ activeTimeout' = IF last THEN AutoStop(p) ELSE activeTimeout
                /\ UNCHANGED <<plays, parsing, stopped, played, playback_status>>

\* a note timer fires: instrument.play(...)
NoteFires ==
    /\ UNCHANGED ovars
    /\  \E n \in timers :
            /\ n.track # 0
            /\ timers' = timers \ {n}
            /\ played' = played \cup {[after_stop |-> n.play \in stopped,
                                       superseded |-> n.play < plays]}
            /\ UNCHANGED <<plays, parsing, loading, scheduledNotes, activeTimeout,
                           stopped, playback_status>>

\* the auto-stop fires, one second after the end of its own playback
AutoStopFires ==
    /\ UNCHANGED ovars
    /\  \E a \in timers :
            /\ a.track = 0
            /\ \A n \in timers : n.play = a.play => n = a
            /\ timers' = timers \ {a}
            /\ scheduledNotes' = {}
            /\ UNCHANGED <<plays, parsing, loading, activeTimeout, stopped, played,
                           playback_status>>

NextPlay ==
    \/ PlayClick
    \/ StopClick
    \/ ParseDone
    \/ InstrumentLoaded
    \/ NoteFires
    \/ AutoStopFires

SpecPlay == InitPlay /\ [][NextPlay]_vars

----------------------------------------------------------------------------
(* Properties of the quantizer (SpecQuant) *)

NonConstant(d) == SeriesMin(d) # SeriesMax(d)

\* C1: for a non-constant series, every sample equal to the series minimum
\* is mapped to the first scale entry and every sample equal to the series
\* maximum to the last scale entry.
C1_MinMaxPinned ==
    (qpc = "done" /\ NonConstant(data)) =>
        /\ f.exc = ""
        /\ \A i \in 1..Len(data) :
             /\ data[i] = SeriesMin(data) => f.f[i] = freq[1]
             /\ data[i] = SeriesMax(data) => f.f[i] = freq[Len(freq)]

\* the middle entry of a scale, 0-based (entry 0 of a 2-entry scale)
MiddleIndex(fr) == (Len(fr) - 1) \div 2

\* C2 as stated: a constant series raises no error and every sample is
\* mapped to the middle entry of the scale (entry 0 of a 2-entry scale).
C2_ConstantMiddle ==
    (qpc = "done" /\ ~NonConstant(data)) =>
        /\ f.exc = ""
        /\ \A i \in 1..Len(data) : f.f[i] = freq[MiddleIndex(freq) + 1]

\* C2 as amended: a constant series raises no error and every sample is
\* mapped to the same single scale entry, the last entry of the scale.
C2_ConstantLast ==
    (qpc = "done" /\ ~NonConstant(data)) =>
        /\ f.exc = ""
        /\ Len(f.f) = Len(data)
        /\ \A i \in 1..Len(data) : f.f[i] = freq[Len(freq)]

C2_Witness ==
    /\ qpc = "done" /\ data = <<4, 4, 4>> /\ freq = <<60, 64, 67>>
    /\ f.f = <<67, 67, 67>>

\* C3: for a non-empty, fully defined, non-constant series and a scale of
\* at least 2 entries, the output has one element per sample, in order, and
\* each element is the scale entry at a bin index within 0..len(scale)-1.
C3_OutputInScale ==
    (qpc = "done" /\ NonConstant(data) /\ NaN \notin Range(data)
        /\ Len(freq) >= 2) =>
        /\ f.exc = ""
        /\ Len(f.f) = Len(data)
        /\ \A i \in 1..Len(data) :
             /\ BinIndex(data, freq, log, i) \in 0..(Len(freq) - 1)
             /\ f.f[i] = freq[BinIndex(data, freq, log, i) + 1]
             /\ f.f[i] \in Range(freq)

C3_Witness ==
    /\ qpc = "done" /\ NonConstant(data) /\ Len(data) = MaxLen
    /\ f.exc = "" /\ Cardinality(Range(f.f)) = MaxLen

\* C4: quantizing with offset k gives, element by element, the result of
\* quantizing with offset 0 plus k.
C4_OffsetAdds ==
    qpc = "done" =>
        f.f = [i \in 1..Len(data) |->
                 freqMap(data, freq, log, inv, 0).f[i] + offset]

\* the position of pitch p in scale fr (scale entries are distinct)
IndexIn(fr, p) == CHOOSE k \in 1..Len(fr) : fr[k] = p

StrictlyIncreasing(d) == \A i \in 1..(Len(d) - 1) : d[i] < d[i + 1]

\* C13: for a strictly increasing series quantized in linear mode, the scale
\* indices of the output are non-decreasing.
C13_Monotone ==
    (qpc = "done" /\ ~log /\ StrictlyIncreasing(data)) =>
        /\ f.exc = ""
        /\ \A i \in 1..(Len(data) - 1) :
             IndexIn(freq, f.f[i]) <= IndexIn(freq, f.f[i + 1])

C13_Witness ==
    /\ qpc = "done" /\ ~log /\ StrictlyIncreasing(data) /\ Len(data) >= 3
    /\ IndexIn(freq, f.f[1]) < IndexIn(freq, f.f[Len(data)])

----------------------------------------------------------------------------
(* Properties of the application (Spec) *)

Generated == ppc = "done" /\ Cleared \notin {call.gauge1, call.gauge2, call.gauge3}

CallWindow(gauge) == Window(df, gauge, call.start_date, call.end_date)

C6_MissingSampleRejected ==
    (Generated /\ \E g \in {call.gauge1, call.gauge2, call.gauge3} :
                    NaN \in Range(CallWindow(g))) =>
        /\ midi_data_store = None
        /\ status_message.color = "danger"
        /\ download_disabled

----------------------------------------------------------------------------
(* Properties of the run encoder and the assembler (SpecEnc) *)

RECURSIVE Expand(_)
Expand(tr) ==
    IF tr = << >> THEN << >>
    ELSE [i \in 1..tr[1][2] |-> tr[1][1]] \o Expand(Tail(tr))

RECURSIVE SumCounts(_)
SumCounts(tr) == IF tr = << >> THEN 0 ELSE tr[1][2] + SumCounts(Tail(tr))

Encoded == epc \in {"encoded", "assembled"}

\* C7: expanding the output of make_track (each pitch repeated count times,
\* in order) gives back the input; every count is at least 1 and the counts
\* sum to the length of the input.
C7_RoundTrip ==
    Encoded =>
        /\ Expand(track) = note_list
        /\ \A r \in 1..Len(track) : track[r][2] >= 1
        /\ SumCounts(track) = Len(note_list)

C7_Witness ==
    /\ epc = "encoded" /\ Len(track) >= 2
    /\ \E r \in 1..Len(track) : track[r][2] >= 2

\* the number of maximal constant stretches of a non-empty sequence
Stretches(s) == 1 + Cardinality({i \in 1..(Len(s) - 1) : s[i] # s[i + 1]})

\* C8: make_track produces one run per maximal constant stretch of its
\* input: adjacent runs differ in pitch, an alternating input gives one run
\* per sample and a constant input exactly one run.
C8_RunsAreStretches ==
    Encoded =>
        /\ Len(track) = Stretches(note_list)
        /\ \A r \in 1..(Len(track) - 1) : track[r][1] # track[r + 1][1]
        /\ (\A i \in 1..(Len(note_list) - 1) : note_list[i] # note_list[i + 1])
              => Len(track) = Len(note_list)
        /\ (\A i \in 1..(Len(note_list) - 1) : note_list[i] = note_list[i + 1])
              => Len(track) = 1

C8_Witness ==
    /\ epc = "encoded" /\ Len(note_list) = MaxTrackLen
    /\ Len(track) > 1 /\ Len(track) < Len(note_list)

\* C9: the first note of a voice starts at time 0, every note has
\* start <= end, and each note ends exactly where the next one starts.
C9_Contiguous ==
    epc = "assembled" =>
        /\ Len(notes) = Len(track)
        /\ notes[1].start = Zero
        /\ \A i \in 1..Len(notes) : BigLeq(notes[i].start, notes[i].end)
        /\ \A i \in 1..(Len(notes) - 1) : notes[i].end = notes[i + 1].start

C9_Witness ==
    /\ epc = "assembled" /\ Len(notes) >= 3
    /\ \E i \in 1..Len(notes) : track[i][2] >= 2

\* C10: the end time of the last note of a voice equals the sum of the run
\* counts (the number of samples) times the unit duration.
C10_TotalDuration ==
    epc = "assembled" =>
        /\ SumCounts(track) = Len(note_list)
        /\ notes[Len(notes)].end = fl_mul(Float(beat_length), SumCounts(track))
        /\ start_time = notes[Len(notes)].end

----------------------------------------------------------------------------
(* Properties of the application over many clicks (SpecApp) *)

BadConfiguration(c) ==
    \/ c.beat_length <= 0
    \/ \E i \in {c.inst1, c.inst2, c.inst3} : i \notin 0..127

\* C11: a call with a unit duration <= 0 or an instrument id outside 0..127
\* is rejected: it ends in an error and produces no MIDI data.
C11_ConfigurationRejected ==
    (ppc = "clicked" /\ BadConfiguration(call)) =>
        /\ midi_data_store = None
        /\ download_disabled
        /\ status_message.color # "success"
        /\ figure = None

\* C15: after any sequence of clicks the Download button is enabled exactly
\* when the store holds MIDI data, and that is exactly after a successful
\* generation; a download serves the stored data of a successful generation.
C15_DownloadOnlyAfterSuccess ==
    /\ [](/\ download_disabled <=> midi_data_store = None
          /\ ppc = "clicked" =>
               (status_message.color = "success" <=> midi_data_store # None))
    /\ [][download_data' # download_data =>
            /\ status_message.color = "success"
            /\ download_data'[1] = midi_data_store
            /\ download_data'[1] # None]_vars

C15_Witness ==
    /\ ppc = "clicked" /\ download_data # None
    /\ status_message.color = "danger"
    /\ midi_data_store = None /\ download_disabled

----------------------------------------------------------------------------
(* Properties of the loop over the voices (SpecVoices) *)

\* C12: whatever the order in which the voices are assembled, the notes of
\* a voice are those of its own run sequence and the unit duration alone,
\* starting at time 0: no timing carries over from another voice.
C12_VoicesIndependent ==
    (order # << >> \/ tracks # << >>) =>
        \A v \in 1..Len(tracks) :
            IF v \in Range(order)
            THEN /\ instrument_notes[v]
                      = Assemble(tracks[v], Float(beat_length)).notes
                 /\ instrument_notes[v][1].start = Zero
            ELSE instrument_notes[v] = << >>

C12_Witness ==
    /\ order = <<3, 1, 2>>
    /\ start_time # Zero
    /\ Len(tracks[1]) > 1 /\ Len(tracks[2]) = 1
    /\ instrument_notes[1] # instrument_notes[3]

----------------------------------------------------------------------------
(* Properties of the gauge map (SpecGeo) *)

\* C14: whatever the site lookup returns, get_usgs_site_info returns a
\* mapping without raising, and the map shows, in the order of the gauges,
\* exactly the gauges that have an entry in that mapping.
C14_MapDegrades ==
    /\ gpc # "failed"
    /\ gpc = "drawn" =>
         /\ {gauge_map.text[i][1] : i \in 1..Len(gauge_map.text)}
              = {g \in Range(gauge_columns) : g \in DOMAIN gauge_locations}
         /\ Len(gauge_map.text) = Cardinality(DOMAIN gauge_locations
                                              \cap Range(gauge_columns))
         /\ \A i \in 1..Len(gauge_map.text) :
              /\ gauge_map.lat[i] = gauge_locations[gauge_map.text[i][1]][1]
              /\ gauge_map.lon[i] = gauge_locations[gauge_map.text[i][1]][2]

C14_Witness ==
    /\ gpc = "drawn"
    /\ Len(gauge_map.text) = 1
    /\ Len(response.lines) = 3 + MaxRows
    /\ Cardinality(DOMAIN gauge_locations) = 2

----------------------------------------------------------------------------
(* Properties of the player (SpecPlay) *)

\* C16: no note of a playback sounds after Stop has run or after a newer
\* playback has been started, and every armed note timer is tracked in
\* window.scheduledNotes.
C16_StopSilences ==
    /\ \A e \in played : ~e.after_stop /\ ~e.superseded
    /\ \A n \in timers : n.track # 0 => n \in scheduledNotes

====
